---- MODULE Spec2Model ----
(***************************************************************************)
(* LocalStorageInterface (src/src/index.ts): the localStorage backend of   *)
(* storage-facade.  Several named storages share window.localStorage; each *)
(* keeps its values under '<name>-<key>' and the ordered list of its keys   *)
(* under '__<name>-keys-array', optionally mirrored in an in-memory cache.  *)
(*                                                                         *)
(* Physical keys are real strings, built by concatenation as the code      *)
(* builds them.  A stored text is the JSON text written by JSON.stringify, *)
(* kept as its syntax tree: an array of key strings or an object with an   *)
(* optional 'value' property.  A JavaScript value is named by its literal. *)
(***************************************************************************)
EXTENDS Integers, Sequences, FiniteSets, TLC

VARIABLES
  localStorage,  \* window.localStorage: physical key -> stored JSON text
  inst,          \* the LocalStorageInterface objects, by identity
  ret,           \* the last completed call: what was called and what it gave
  shadow,        \* history: per storage name, the keys set and not removed since,
                 \* in the order of their first set, and the value last set
  run,           \* the call in progress, when a call is followed one
                 \* localStorage access at a time
  heap           \* the JavaScript objects passed as values, by reference

vars == <<localStorage, inst, ret, shadow, run, heap>>

----------------------------------------------------------------------------
(* Bounds and input sets *)

NumKeys == 2
MaxIndex == 2
MaxFault == 2
MaxObjects == 4

KeyPool == <<"value", "otherValue", "third", "fourth">>

\* the logical keys callers use
Keys == {KeyPool[n] : n \in 1..NumKeys}

\* the JavaScript values callers store: undefined, null, a number
Undefined == "undefined"

Values == {Undefined, "null", "10"}

\* the object identities
Inst == {1, 2}

\* storage-facade's defaultStorageName (README: "optional, default: 'storage'")
defaultStorageName == "storage"

defaultUseCache == FALSE

\* the storage names of the single-storage specification
Names == {"storageOne"}

\* storage names for two storages side by side
NamesTwo == {"a", "a-b", "__a"}

\* the logical keys used with NamesTwo
KeysTwo == {"value", "b-value"}

\* the values stored with NamesTwo
ValuesTwo == {"null", "10"}

\* the references to the JavaScript objects that exist at one time
RefPool == <<"obj1", "obj2", "obj3", "obj4", "obj5", "obj6">>

Refs == {RefPool[n] : n \in 1..MaxObjects}

\* what an object holds, as its JSON text
ObjData == {"{n:1}", "{n:2}"}

\* the logical key the objects are stored under
KeysHeap == {"value"}

\* a key that other code on the page keeps in localStorage
ForeignKeys == {"theme"}

\* the logical keys and the values used next to other code
KeysShared == {"value", "otherValue"}

ValuesShared == {"10"}

AllNames == Names \cup NamesTwo \cup {defaultStorageName}

NoSetup == [hasName |-> FALSE, name |-> "", hasUseCache |-> FALSE, useCache |-> FALSE]

SetupsOf(names) ==
  [hasName : {TRUE}, name : names, hasUseCache : {TRUE}, useCache : BOOLEAN]

Setups == SetupsOf(Names) \cup {NoSetup}

----------------------------------------------------------------------------
(* Maps and arrays *)

EmptyMap == [k \in {} |-> Undefined]

MapSet(m, k, v) == [x \in DOMAIN m \cup {k} |-> IF x = k THEN v ELSE m[x]]

MapDelete(m, k) == [x \in DOMAIN m \ {k} |-> m[x]]

\* a bug: the key is never found, so every set appends it
Includes_Never(arr, key) == FALSE

\* Array.prototype.includes
Includes(arr, key) == \E n \in 1..Len(arr) : arr[n] = key

\* a bug: the new key is put first (unshift for push)
Push_Front(arr, key) == <<key>> \o arr

\* Array.prototype.push
Push(arr, key) == Append(arr, key)

\* a bug: the predicate is inverted, only the removed key is kept
FilterOut_Inverted(arr, key) == SelectSeq(arr, LAMBDA savedKey : savedKey = key)

\* Array.prototype.filter((savedKey) => savedKey !== key)
FilterOut(arr, key) == SelectSeq(arr, LAMBDA savedKey : savedKey # key)

----------------------------------------------------------------------------
(* window.localStorage.  Any access may throw (storage disabled, quota     *)
(* exceeded).  A fault names the access of a call that throws: the one     *)
(* after 'left' accesses have succeeded.                                   *)

NoFault == [canThrow |-> FALSE, left |-> 0]

FaultAfter(n) == [canThrow |-> TRUE, left |-> n]

\* the faults a call is run with: none, or a throw at one of its accesses
Faults == {NoFault} \cup {FaultAfter(n) : n \in 0..MaxFault}

\* During a call the medium is carried with the set of physical keys the
\* call has passed to setItem or removeItem so far, the fault, and whether
\* an access has thrown; nothing is executed after a throw.
Begin(store, fault) ==
  [store |-> store, log |-> {}, fault |-> fault, thrown |-> FALSE]

\* one access: it throws when the fault is due, else the medium is as given
Access(m, store, log) ==
  IF m.thrown THEN m
  ELSE IF m.fault.canThrow /\ m.fault.left = 0 THEN [m EXCEPT !.thrown = TRUE]
  ELSE [store |-> store, log |-> log, thrown |-> FALSE,
        fault |-> IF m.fault.canThrow THEN FaultAfter(m.fault.left - 1)
                                      ELSE m.fault]

\* getItem(pk) !== null
LSHas(ls, pk) == pk \in DOMAIN ls

\* getItem(pk), as an access; what it returns is read with LSHas and ls[pk]
LSGetItem(m, pk) == Access(m, m.store, m.log)

\* setItem(pk, text)
LSSetItem(m, pk, text) ==
  Access(m, MapSet(m.store, pk, text), m.log \cup {pk})

\* removeItem(pk)
LSRemoveItem(m, pk) ==
  Access(m, MapDelete(m.store, pk), m.log \cup {pk})

----------------------------------------------------------------------------
(* JSON *)

\* JSON.stringify of an array of strings
JSONstringifyArray(keys) ==
  [kind |-> "array", items |-> keys, hasValue |-> FALSE, value |-> Undefined]

\* a bug: null is left out like undefined, so a stored null reads as absent
JSONstringifyWrapped_NullLeftOut(value) ==
  [kind |-> "object", items |-> <<>>,
   hasValue |-> (value \notin {Undefined, "null"}),
   value |-> IF value = "null" THEN Undefined ELSE value]

\* JSON.stringify({ value }): a property whose value is undefined is left out
JSONstringifyWrapped(value) ==
  [kind |-> "object", items |-> <<>>,
   hasValue |-> (value # Undefined), value |-> value]

\* a text that is not JSON, as other code on the page may store
OtherText ==
  [kind |-> "other", items |-> <<>>, hasValue |-> FALSE, value |-> Undefined]

\* JSON.parse(keysStr) as string[]: throws SyntaxError on a text that is not
\* JSON
JSONparseArray(text) ==
  IF text.kind = "array"
    THEN [isArray |-> TRUE, keys |-> text.items, threw |-> FALSE]
    ELSE [isArray |-> FALSE, keys |-> <<>>, threw |-> text.kind = "other"]

\* const { value } = JSON.parse(valueStr)
JSONparseWrapped(text) ==
  IF text.kind = "object" /\ text.hasValue THEN text.value ELSE Undefined

\* structuredClone of a value named by its literal
structuredClone(value) == value

----------------------------------------------------------------------------
(* The object *)

NewObject ==
  [phase |-> "constructed", storageName |-> "", keysArrayName |-> "",
   useCache |-> defaultUseCache, keysArrayCache |-> <<>>,
   keyValueCache |-> EmptyMap]

NoRet ==
  [op |-> "none", i |-> 0, key |-> "", idx |-> 0, err |-> "",
   val |-> Undefined, num |-> 0, existed |-> FALSE, before |-> <<>>,
   touched |-> {}, thrown |-> FALSE, fault |-> NoFault]

NoRun ==
  [op |-> "none", i |-> 0, key |-> "", value |-> Undefined, done |-> 0,
   ls |-> EmptyMap, o |-> NewObject]

\* an object: what it holds, whether the caller has a reference to it, and
\* how the caller came by it ("new", or passed to "set", or returned by get
\* from the cache, "hit", or from localStorage, "miss") under which key
NoHeap ==
  [ref \in {} |-> [data |-> Undefined, held |-> FALSE, via |-> "", key |-> ""]]

NoShadow == [keys |-> <<>>, vals |-> EmptyMap]

\* the history after a completed set: a key not live is appended
ShadowSet(sh, key, value) ==
  [keys |-> IF key \in DOMAIN sh.vals THEN sh.keys ELSE sh.keys \o <<key>>,
   vals |-> [x \in DOMAIN sh.vals \cup {key} |-> IF x = key THEN value ELSE sh.vals[x]]]

\* the history after a completed remove
ShadowRemove(sh, key) ==
  [keys |-> SelectSeq(sh.keys, LAMBDA x : x # key),
   vals |-> [x \in DOMAIN sh.vals \ {key} |-> sh.vals[x]]]

Init ==
  /\ localStorage = EmptyMap
  /\ inst = [i \in Inst |-> NewObject]
  /\ ret = NoRet
  /\ shadow = [n \in AllNames |-> NoShadow]
  /\ run = NoRun
  /\ heap = NoHeap

----------------------------------------------------------------------------
(* Helpers of the operations *)

\* a bug: the storage name is left out of the physical key
keyName_NoPrefix(o, key) == key

\* keyName(key)
keyName(o, key) == o.storageName \o "-" \o key

\* a bug: a missing keys array is read as an empty one
getKeysArray_MissingIsEmpty(ls, o) ==
  IF ~LSHas(ls, o.keysArrayName)
    THEN [err |-> "", keys |-> <<>>]
    ELSE LET p == JSONparseArray(ls[o.keysArrayName])
         IN  [err |-> IF p.isArray THEN ""
                      ELSE IF p.threw THEN "SyntaxError" ELSE "TypeError",
              keys |-> p.keys]

\* getKeysArray(): throws when the keys array is not in localStorage.  Its
\* assignment to keysArrayCache is guarded by useCache, and every caller
\* calls it only when useCache is false.
getKeysArray(ls, o) ==
  IF ~LSHas(ls, o.keysArrayName)
    THEN [err |-> "not found", keys |-> <<>>]
    ELSE LET p == JSONparseArray(ls[o.keysArrayName])
         IN  [err |-> IF p.isArray THEN ""
                      ELSE IF p.threw THEN "SyntaxError" ELSE "TypeError",
              keys |-> p.keys]

\* a bug: the keys array is read from localStorage also when useCache is set
KeysArrayOf_AlwaysRead(ls, o) ==
  IF ~LSHas(ls, o.keysArrayName)
    THEN [err |-> "not found", keys |-> <<>>]
    ELSE [err |-> "", keys |-> JSONparseArray(ls[o.keysArrayName]).keys]

\* a bug: keysArrayCache is used also when useCache is not set
KeysArrayOf_AlwaysCache(ls, o) == [err |-> "", keys |-> o.keysArrayCache]

\* this.useCache ? this.keysArrayCache : this.getKeysArray()
KeysArrayOf(ls, o) ==
  IF o.useCache THEN [err |-> "", keys |-> o.keysArrayCache]
                ELSE getKeysArray(ls, o)

\* what is persisted under the object's index key, read past the adapter
PersistedIndex(ls, o) ==
  IF LSHas(ls, o.keysArrayName) THEN JSONparseArray(ls[o.keysArrayName]).keys
                                ELSE <<>>

\* a bug: only the first listed Entry is removed
RemoveEach_OnlyFirst(m, o, keysArray) ==
  IF keysArray = <<>> THEN m
  ELSE LSRemoveItem(m, keyName(o, Head(keysArray)))

\* keysArray.forEach((key) => localStorage.removeItem(this.keyName(key)))
RECURSIVE RemoveEach(_, _, _)
RemoveEach(m, o, keysArray) ==
  IF keysArray = <<>> THEN m
  ELSE RemoveEach(LSRemoveItem(m, keyName(o, Head(keysArray))), o, Tail(keysArray))

\* a bug: the physical key is compared with the index key
IsReservedKey_Physical(o, key) == keyName(o, key) = o.keysArrayName

\* key === this.keysArrayName
IsReservedKey(o, key) == key = o.keysArrayName

\* a bug: the keys array is taken to be missing, and is created anew
IsKeysArrayInStorage_Never(ls, keysArrayName) == FALSE

\* keysStr !== null, for keysStr = localStorage.getItem(keysArrayName)
IsKeysArrayInStorage(ls, keysArrayName) == LSHas(ls, keysArrayName)

\* what getItemSync(key) returns
getItemResult(ls, o, key) ==
  IF o.useCache /\ key \in DOMAIN o.keyValueCache
    THEN structuredClone(o.keyValueCache[key])
  ELSE IF ~LSHas(ls, keyName(o, key)) THEN Undefined
  ELSE JSONparseWrapped(ls[keyName(o, key)])

\* what sizeSync() returns: the length of an array; of anything else, undefined
sizeResult(ls, o) ==
  LET ka == KeysArrayOf(ls, o)
  IN  [err |-> IF ka.err = "not found" THEN ka.err ELSE "",
       num |-> IF ka.err = "" THEN Len(ka.keys) ELSE -1]

\* what keySync(index) returns: keysArray[index], undefined out of range
keyResult(ls, o, index) ==
  LET ka == KeysArrayOf(ls, o)
  IN  [err |-> IF ka.err = "not found" THEN ka.err ELSE "",
       val |-> IF ka.err = "" /\ index + 1 \in 1..Len(ka.keys)
                 THEN ka.keys[index + 1] ELSE Undefined]

\* the cache after getItemSync(key): a value read from localStorage is kept
CacheAfterGet(ls, o, key) ==
  IF o.useCache /\ key \notin DOMAIN o.keyValueCache /\ LSHas(ls, keyName(o, key))
    THEN [o EXCEPT !.keyValueCache =
            MapSet(@, key, structuredClone(JSONparseWrapped(ls[keyName(o, key)])))]
    ELSE o

\* the cache after setItemSync(key, value)
CacheAfterSet(o, key, value, keysArray) ==
  IF o.useCache
    THEN [o EXCEPT !.keysArrayCache = keysArray,
                   !.keyValueCache = MapSet(@, key, structuredClone(value))]
    ELSE o

\* a bug: the removed key's value stays in keyValueCache
CacheAfterRemove_KeepsValue(o, key, updatedKeysArray) ==
  IF o.useCache THEN [o EXCEPT !.keysArrayCache = updatedKeysArray] ELSE o

\* the cache after removeItemSync(key)
CacheAfterRemove(o, key, updatedKeysArray) ==
  IF o.useCache
    THEN [o EXCEPT !.keyValueCache = MapDelete(@, key),
                   !.keysArrayCache = updatedKeysArray]
    ELSE o

\* the cache after clearSync()
CacheAfterClear(o) ==
  IF o.useCache
    THEN [o EXCEPT !.keyValueCache = EmptyMap, !.keysArrayCache = <<>>]
    ELSE o

Ready(i) == inst[i].phase = "ready"

\* initSync has returned on the object, with or without an Error
Initialized(i) == inst[i].phase # "constructed"

\* what localStorage throws
MediumError == "medium access failed"

\* how a call ends: localStorage and the object as the call leaves them, the
\* physical keys written, the error ("" for none) and where it was raised
Outcome(m, o, err, at) ==
  [store |-> m.store, log |-> m.log, o |-> o, err |-> err, at |-> at]

\* setup.name ?? defaultStorageName
NameOf(setup) == IF setup.hasName THEN setup.name ELSE defaultStorageName

\* (setup.useCache as boolean) ?? defaultUseCache
UseCacheOf(setup) == IF setup.hasUseCache THEN setup.useCache ELSE defaultUseCache

\* a bug: only the statement that creates the keys array is inside try
TryCovers_CreateOnly == {"setItem"}

\* the statements of initSync inside try { } catch (e) { return e }
TryCovers == {"getItem", "setItem", "parse"}

\* initSync(setup) on object o
InitCall(ls, o, setup, fault) ==
  LET storageName == NameOf(setup)
      useCache == UseCacheOf(setup)
      keysArrayName == "__" \o storageName \o "-keys-array"
      named == [o EXCEPT !.storageName = storageName,
                         !.useCache = useCache,
                         !.keysArrayName = keysArrayName]
      m0 == LSGetItem(Begin(ls, fault), keysArrayName)
      isKeysArrayInStorage == IsKeysArrayInStorage(ls, keysArrayName)
      m1 == IF ~isKeysArrayInStorage
              THEN LSSetItem(m0, keysArrayName, JSONstringifyArray(<<>>))
              ELSE m0
      parsed == IF isKeysArrayInStorage
                  THEN JSONparseArray(ls[keysArrayName])
                  ELSE JSONparseArray(JSONstringifyArray(<<>>))
      failed == [named EXCEPT !.phase = "failed"]
  IN  IF m0.thrown THEN Outcome(m0, failed, MediumError, "getItem")
      ELSE IF m1.thrown THEN Outcome(m1, failed, MediumError, "setItem")
      ELSE IF isKeysArrayInStorage /\ useCache /\ parsed.threw
        THEN Outcome(m1, failed, "SyntaxError", "parse")
      ELSE Outcome(m1,
                   [named EXCEPT !.phase = "ready",
                                 !.keysArrayCache =
                                    IF isKeysArrayInStorage /\ useCache
                                      THEN parsed.keys ELSE @],
                   "", "")

\* const keysArray = this.keysArrayCache; keysArray.push(key): with useCache
\* the pushed array is the cached array itself
PushedInPlace(o, keysArray) ==
  IF o.useCache THEN [o EXCEPT !.keysArrayCache = keysArray] ELSE o

\* the access getKeysArray() makes, when it is called
ReadKeysArray(m, o) ==
  IF o.useCache THEN m ELSE LSGetItem(m, o.keysArrayName)

\* a bug: the keys array is written on every set, as removeItemSync does
SetItemCall_IndexAlways(ls, o, key, value, fault) ==
  LET m0 == ReadKeysArray(Begin(ls, fault), o)
      ka == KeysArrayOf(ls, o)
      isNew == ~Includes(ka.keys, key)
      keysArray == IF isNew THEN Push(ka.keys, key) ELSE ka.keys
      m1 == LSSetItem(m0, o.keysArrayName, JSONstringifyArray(keysArray))
      m2 == LSSetItem(m1, keyName(o, key), JSONstringifyWrapped(value))
  IN  IF IsReservedKey(o, key)
        THEN Outcome(Begin(ls, fault), o, "cannot be used", "check")
      ELSE IF m0.thrown THEN Outcome(m0, o, MediumError, "getItem")
      ELSE IF ka.err # "" THEN Outcome(m0, o, ka.err, "getKeysArray")
      ELSE IF m2.thrown
        THEN Outcome(m2, PushedInPlace(o, keysArray), MediumError, "setItem")
      ELSE Outcome(m2, CacheAfterSet(o, key, value, keysArray), "", "")

\* setItemSync(key, value) on object o
SetItemCall(ls, o, key, value, fault) ==
  LET m0 == ReadKeysArray(Begin(ls, fault), o)
      ka == KeysArrayOf(ls, o)
      isNew == ~Includes(ka.keys, key)
      keysArray == IF isNew THEN Push(ka.keys, key) ELSE ka.keys
      m1 == IF isNew
              THEN LSSetItem(m0, o.keysArrayName, JSONstringifyArray(keysArray))
              ELSE m0
      m2 == LSSetItem(m1, keyName(o, key), JSONstringifyWrapped(value))
  IN  IF IsReservedKey(o, key)
        THEN Outcome(Begin(ls, fault), o, "cannot be used", "check")
      ELSE IF m0.thrown THEN Outcome(m0, o, MediumError, "getItem")
      ELSE IF ka.err # "" THEN Outcome(m0, o, ka.err, "getKeysArray")
      ELSE IF m2.thrown
        THEN Outcome(m2, PushedInPlace(o, keysArray), MediumError, "setItem")
      ELSE Outcome(m2, CacheAfterSet(o, key, value, keysArray), "", "")

\* removeItemSync(key) on object o
RemoveItemCall(ls, o, key, fault) ==
  LET m0 == ReadKeysArray(Begin(ls, fault), o)
      ka == KeysArrayOf(ls, o)
      updatedKeysArray == FilterOut(ka.keys, key)
      m1 == LSSetItem(m0, o.keysArrayName, JSONstringifyArray(updatedKeysArray))
      m2 == LSRemoveItem(m1, keyName(o, key))
  IN  IF m0.thrown THEN Outcome(m0, o, MediumError, "getItem")
      ELSE IF ka.err # "" THEN Outcome(m0, o, ka.err, "getKeysArray")
      ELSE IF m1.thrown THEN Outcome(m1, o, MediumError, "setItem")
      ELSE IF m2.thrown THEN Outcome(m2, o, MediumError, "removeItem")
      ELSE Outcome(m2, CacheAfterRemove(o, key, updatedKeysArray), "", "")

\* a bug: the keys array is emptied before the Entries are removed
ClearCall_IndexFirst(ls, o, fault) ==
  LET m0 == ReadKeysArray(Begin(ls, fault), o)
      ka == KeysArrayOf(ls, o)
      m1 == LSSetItem(m0, o.keysArrayName, JSONstringifyArray(<<>>))
      m2 == RemoveEach(m1, o, ka.keys)
  IN  IF m0.thrown THEN Outcome(m0, o, MediumError, "getItem")
      ELSE IF ka.err # "" THEN Outcome(m0, o, ka.err, "getKeysArray")
      ELSE IF m2.thrown THEN Outcome(m2, o, MediumError, "removeItem")
      ELSE Outcome(m2, CacheAfterClear(o), "", "")

\* clearSync() on object o
ClearCall(ls, o, fault) ==
  LET m0 == ReadKeysArray(Begin(ls, fault), o)
      ka == KeysArrayOf(ls, o)
      m1 == RemoveEach(m0, o, ka.keys)
      m2 == LSSetItem(m1, o.keysArrayName, JSONstringifyArray(<<>>))
  IN  IF m0.thrown THEN Outcome(m0, o, MediumError, "getItem")
      ELSE IF ka.err # "" THEN Outcome(m0, o, ka.err, "getKeysArray")
      ELSE IF m1.thrown THEN Outcome(m1, o, MediumError, "removeItem")
      ELSE IF m2.thrown THEN Outcome(m2, o, MediumError, "setItem")
      ELSE Outcome(m2, CacheAfterClear(o), "", "")

Called(op, i, key, idx) ==
  [NoRet EXCEPT !.op = op, !.i = i, !.key = key, !.idx = idx,
                !.existed = LSHas(localStorage, inst[i].keysArrayName),
                !.before = PersistedIndex(localStorage, inst[i])]

\* the call has ended as its outcome says
Ended(r, i, c) ==
  /\ localStorage' = c.store
  /\ inst' = [inst EXCEPT ![i] = c.o]
  /\ ret' = [r EXCEPT !.err = c.err, !.touched = c.log,
                      !.thrown = (c.err # "" /\ (r.op = "init" => c.at \notin TryCovers))]

----------------------------------------------------------------------------
(* new LocalStorageInterface(): the object is replaced by a fresh one (the  *)
(* page is loaded again); localStorage outlives it.                        *)

Construct(i) ==
  /\ Initialized(i)
  /\ inst' = [inst EXCEPT ![i] = NewObject]
  /\ ret' = [NoRet EXCEPT !.op = "new", !.i = i]
  /\ UNCHANGED <<localStorage, shadow, run, heap>>

(* initSync(setup) *)
InitSync(i, setup, fault) ==
  /\ inst[i].phase = "constructed"
  /\ LET c == InitCall(localStorage, inst[i], setup, fault)
         r == [NoRet EXCEPT !.op = "init", !.i = i, !.fault = fault,
                 !.existed = IsKeysArrayInStorage(localStorage, c.o.keysArrayName),
                 !.before = PersistedIndex(localStorage, c.o)]
     IN  Ended(r, i, c)
  /\ UNCHANGED <<shadow, run, heap>>

(* getItemSync(key) *)
GetItemSync(i, key) ==
  /\ Initialized(i)
  /\ inst' = [inst EXCEPT ![i] = CacheAfterGet(localStorage, inst[i], key)]
  /\ ret' = [Called("get", i, key, 0) EXCEPT
               !.val = getItemResult(localStorage, inst[i], key)]
  /\ UNCHANGED <<localStorage, shadow, run, heap>>

(* setItemSync(key, value) *)
SetItemSync(i, key, value, fault) ==
  /\ Initialized(i)
  /\ LET c == SetItemCall(localStorage, inst[i], key, value, fault)
     IN  /\ Ended([Called("set", i, key, 0) EXCEPT !.fault = fault], i, c)
         /\ shadow' = IF c.err = ""
                        THEN [shadow EXCEPT ![c.o.storageName] = ShadowSet(@, key, value)]
                        ELSE shadow
  /\ UNCHANGED <<run, heap>>

(* removeItemSync(key) *)
RemoveItemSync(i, key, fault) ==
  /\ Initialized(i)
  /\ LET c == RemoveItemCall(localStorage, inst[i], key, fault)
     IN  /\ Ended([Called("remove", i, key, 0) EXCEPT !.fault = fault], i, c)
         /\ shadow' = IF c.err = ""
                        THEN [shadow EXCEPT ![c.o.storageName] = ShadowRemove(@, key)]
                        ELSE shadow
  /\ UNCHANGED <<run, heap>>

(* clearSync() *)
ClearSync(i, fault) ==
  /\ Initialized(i)
  /\ LET c == ClearCall(localStorage, inst[i], fault)
     IN  /\ Ended([Called("clear", i, "", 0) EXCEPT !.fault = fault], i, c)
         /\ shadow' = IF c.err = ""
                        THEN [shadow EXCEPT ![c.o.storageName] = NoShadow]
                        ELSE shadow
  /\ UNCHANGED <<run, heap>>

(* sizeSync() *)
SizeSync(i) ==
  /\ Initialized(i)
  /\ LET res == sizeResult(localStorage, inst[i])
     IN  ret' = [Called("size", i, "", 0) EXCEPT
                   !.err = res.err, !.num = res.num, !.thrown = (res.err # "")]
  /\ UNCHANGED <<localStorage, inst, shadow, run, heap>>

(* keySync(index) *)
KeySync(i, index) ==
  /\ Initialized(i)
  /\ LET res == keyResult(localStorage, inst[i], index)
     IN  ret' = [Called("key", i, "", index) EXCEPT
                   !.err = res.err, !.val = res.val, !.thrown = (res.err # "")]
  /\ UNCHANGED <<localStorage, inst, shadow, run, heap>>

----------------------------------------------------------------------------
(* One storage, one object at a time *)

\* the keys a caller may pass: the logical keys and the reserved index key
KeysFor(i) == Keys \cup {inst[i].keysArrayName}

\* the storage names that already have a keys array in localStorage
NamesInUse == {n \in AllNames : LSHas(localStorage, "__" \o n \o "-keys-array")}

Next ==
  \/ Construct(1)
  \/ \E setup \in Setups :
       /\ NamesInUse \subseteq {NameOf(setup)}
       /\ InitSync(1, setup, NoFault)
  \/ \E key \in KeysFor(1) : GetItemSync(1, key)
  \/ \E key \in KeysFor(1), value \in Values : SetItemSync(1, key, value, NoFault)
  \/ \E key \in KeysFor(1) : RemoveItemSync(1, key, NoFault)
  \/ ClearSync(1, NoFault)
  \/ SizeSync(1)
  \/ \E index \in 0..MaxIndex : KeySync(1, index)

Spec == Init /\ [][Next]_vars

----------------------------------------------------------------------------
(* Two storages with different names, one object each, side by side *)

OtherNames(i) == {inst[j].storageName : j \in {j \in Inst \ {i} : Ready(j)}}

NextTwo ==
  \E i \in Inst :
    \/ \E setup \in SetupsOf(NamesTwo) :
         /\ setup.name \notin OtherNames(i)
         /\ InitSync(i, setup, NoFault)
    \/ \E key \in KeysTwo : GetItemSync(i, key)
    \/ \E key \in KeysTwo, value \in ValuesTwo : SetItemSync(i, key, value, NoFault)
    \/ \E key \in KeysTwo : RemoveItemSync(i, key, NoFault)
    \/ ClearSync(i, NoFault)
    \/ SizeSync(i)
    \/ \E index \in 0..MaxIndex : KeySync(i, index)

SpecTwo == Init /\ [][NextTwo]_vars

----------------------------------------------------------------------------
(* One storage in a localStorage that throws and that other code uses too *)

\* other code on the page (or the user, in the developer tools) stores a
\* text under a key
ForeignSetItem(pk, text) ==
  /\ localStorage' = MapSet(localStorage, pk, text)
  /\ ret' = [NoRet EXCEPT !.op = "foreign", !.key = pk]
  /\ UNCHANGED <<inst, shadow, run, heap>>

\* other code removes a key
ForeignRemoveItem(pk) ==
  /\ LSHas(localStorage, pk)
  /\ localStorage' = MapDelete(localStorage, pk)
  /\ ret' = [NoRet EXCEPT !.op = "foreign", !.key = pk]
  /\ UNCHANGED <<inst, shadow, run, heap>>

\* the keys other code writes: its own, and the keys array of the storage
SharedKeys == ForeignKeys \cup {"__" \o n \o "-keys-array" : n \in Names}

\* what an earlier page load has left in localStorage: 'storageOne' with 10
\* under 'value'
StoredBefore ==
  [pk \in {"__storageOne-keys-array", "storageOne-value"} |->
     IF pk = "storageOne-value" THEN JSONstringifyWrapped("10")
                                ELSE JSONstringifyArray(<<"value">>)]

\* the page is loaded with localStorage empty or as it was left
InitShared ==
  /\ inst = [i \in Inst |-> NewObject]
  /\ ret = NoRet
  /\ run = NoRun
  /\ heap = NoHeap
  /\ \E left \in BOOLEAN :
       /\ localStorage = IF left THEN StoredBefore ELSE EmptyMap
       /\ shadow = [n \in AllNames |->
                      IF left /\ n = "storageOne"
                        THEN ShadowSet(NoShadow, "value", "10") ELSE NoShadow]

NextShared ==
  \/ \E setup \in SetupsOf(Names), fault \in Faults : InitSync(1, setup, fault)
  \/ \E key \in KeysShared : GetItemSync(1, key)
  \/ \E key \in KeysShared, value \in ValuesShared, fault \in Faults :
       SetItemSync(1, key, value, fault)
  \/ \E key \in KeysShared, fault \in Faults : RemoveItemSync(1, key, fault)
  \/ \E fault \in Faults : ClearSync(1, fault)
  \/ SizeSync(1)
  \/ KeySync(1, 0)
  \/ \E pk \in SharedKeys : ForeignSetItem(pk, OtherText)
  \/ \E pk \in SharedKeys : ForeignRemoveItem(pk)

SpecShared == InitShared /\ [][NextShared]_vars

----------------------------------------------------------------------------
(* One storage, with setItemSync, removeItemSync and clearSync followed one *)
(* localStorage access at a time.  The call in progress is kept with       *)
(* localStorage and the object as they were when it was called; where the  *)
(* call stands after n accesses is where it would stand had the next       *)
(* access thrown.                                                          *)

\* the call r run with a fault
CallOf(r, fault) ==
  CASE r.op = "set" -> SetItemCall(r.ls, r.o, r.key, r.value, fault)
    [] r.op = "remove" -> RemoveItemCall(r.ls, r.o, r.key, fault)
    [] r.op = "clear" -> ClearCall(r.ls, r.o, fault)

\* the call is made: nothing is accessed yet
StartCall(i, op, key, value) ==
  LET r == [op |-> op, i |-> i, key |-> key, value |-> value, done |-> 0,
            ls |-> localStorage, o |-> inst[i]]
  IN  /\ run = NoRun
      /\ Ready(i)
      /\ CallOf(r, NoFault).err = ""
      /\ run' = r
      /\ UNCHANGED <<localStorage, inst, ret, shadow, heap>>

\* the call in progress makes its next access to localStorage, and returns
\* when that was its last
StepCall ==
  /\ run # NoRun
  /\ LET c == CallOf(run, FaultAfter(run.done + 1))
         sh == shadow[run.o.storageName]
     IN  /\ localStorage' = c.store
         /\ inst' = [inst EXCEPT ![run.i] = c.o]
         /\ IF c.err = MediumError
              THEN /\ run' = [run EXCEPT !.done = @ + 1]
                   /\ UNCHANGED <<ret, shadow>>
              ELSE /\ run' = NoRun
                   /\ ret' = [NoRet EXCEPT
                                !.op = run.op, !.i = run.i, !.key = run.key,
                                !.existed = LSHas(run.ls, run.o.keysArrayName),
                                !.before = PersistedIndex(run.ls, run.o),
                                !.touched = c.log]
                   /\ shadow' = [shadow EXCEPT ![run.o.storageName] =
                        CASE run.op = "set" -> ShadowSet(sh, run.key, run.value)
                          [] run.op = "remove" -> ShadowRemove(sh, run.key)
                          [] run.op = "clear" -> NoShadow]
  /\ UNCHANGED heap

NextSteps ==
  \/ run = NoRun /\ Construct(1)
  \/ \E setup \in SetupsOf(Names) : run = NoRun /\ InitSync(1, setup, NoFault)
  \/ \E key \in Keys : run = NoRun /\ GetItemSync(1, key)
  \/ \E key \in Keys, value \in ValuesTwo : StartCall(1, "set", key, value)
  \/ \E key \in Keys : StartCall(1, "remove", key, Undefined)
  \/ StartCall(1, "clear", "", Undefined)
  \/ StepCall

SpecSteps == Init /\ [][NextSteps]_vars

----------------------------------------------------------------------------
(* One storage whose values are objects.  A value is a reference into the  *)
(* heap; the caller may change an object it has a reference to.            *)

\* a reference that is not in use
Fresh(h) == CHOOSE ref \in Refs : ref \notin DOMAIN h

\* a new object
Alloc(h, ref, data, held, via, key) ==
  [x \in DOMAIN h \cup {ref} |->
     IF x = ref THEN [data |-> data, held |-> held, via |-> via, key |-> key]
                ELSE h[x]]

\* the objects the caches refer to
Cached == UNION {{inst[i].keyValueCache[key] : key \in DOMAIN inst[i].keyValueCache}
                   : i \in Inst}

\* a bug: the caller's object itself is put in the cache
CachedOnSet_Alias(value, clone) == value

\* this.keyValueCache.set(key, structuredClone(value)), in setItemSync
CachedOnSet(value, clone) == clone

\* a bug: the cached object itself is returned
ReturnedOnHit_Alias(cached, clone) == cached

\* return structuredClone(this.keyValueCache.get(key))
ReturnedOnHit(cached, clone) == clone

\* a bug: the object that is returned is put in the cache
CachedOnMiss_Alias(value, clone) == value

\* this.keyValueCache.set(key, structuredClone(value)), in getItemSync
CachedOnMiss(value, clone) == clone

\* the caller makes an object
NewValue(data) ==
  /\ DOMAIN heap # Refs
  /\ heap' = Alloc(heap, Fresh(heap), data, TRUE, "new", "")
  /\ ret' = [NoRet EXCEPT !.op = "caller"]
  /\ UNCHANGED <<localStorage, inst, shadow, run>>

\* the caller changes an object it has a reference to
Mutate(ref, data) ==
  /\ ref \in DOMAIN heap
  /\ heap[ref].held
  /\ heap[ref].data # data
  /\ heap' = [heap EXCEPT ![ref].data = data]
  /\ ret' = [NoRet EXCEPT !.op = "caller"]
  /\ UNCHANGED <<localStorage, inst, shadow, run>>

\* the caller lets go of its objects, and the objects nothing refers to are
\* collected
Collect ==
  /\ heap' = [ref \in DOMAIN heap \cap Cached |-> [heap[ref] EXCEPT !.held = FALSE]]
  /\ heap' # heap
  /\ ret' = [NoRet EXCEPT !.op = "caller"]
  /\ UNCHANGED <<localStorage, inst, shadow, run>>

(* setItemSync(key, value), value an object *)
SetItemSyncRef(i, key, value) ==
  /\ Ready(i)
  /\ value \in DOMAIN heap
  /\ heap[value].held
  /\ DOMAIN heap # Refs
  /\ LET o == inst[i]
         data == heap[value].data
         clone == Fresh(heap)
         c == SetItemCall(localStorage, o, key, data, NoFault)
         passed == [heap EXCEPT ![value].via = "set", ![value].key = key]
     IN  /\ Ended(Called("set", i, key, 0), i,
                  IF o.useCache
                    THEN [c EXCEPT !.o.keyValueCache =
                            MapSet(@, key, CachedOnSet(value, clone))]
                    ELSE c)
         /\ heap' = IF o.useCache
                      THEN Alloc(passed, clone, data, FALSE, "", "")
                      ELSE passed
         /\ shadow' = [shadow EXCEPT ![o.storageName] = ShadowSet(@, key, data)]
  /\ UNCHANGED run

(* getItemSync(key), the values being objects *)
GetItemSyncRef(i, key) ==
  /\ Ready(i)
  /\ Cardinality(Refs \ DOMAIN heap) >= 2
  /\ LET o == inst[i]
         r == Called("get", i, key, 0)
         first == Fresh(heap)
     IN  IF o.useCache /\ key \in DOMAIN o.keyValueCache
           THEN LET cached == o.keyValueCache[key]
                    returned == ReturnedOnHit(cached, first)
                    h == Alloc(heap, first, heap[cached].data, FALSE, "", "")
                IN  /\ heap' = [h EXCEPT ![returned].held = TRUE,
                                         ![returned].via = "hit",
                                         ![returned].key = key]
                    /\ ret' = [r EXCEPT !.val = h[returned].data]
                    /\ UNCHANGED inst
         ELSE IF ~LSHas(localStorage, keyName(o, key))
           THEN /\ ret' = r
                /\ UNCHANGED <<inst, heap>>
         ELSE LET data == JSONparseWrapped(localStorage[keyName(o, key)])
                  h == Alloc(heap, first, data, TRUE, "miss", key)
                  second == Fresh(h)
              IN  /\ ret' = [r EXCEPT !.val = data]
                  /\ IF o.useCache
                       THEN /\ inst' = [inst EXCEPT ![i].keyValueCache =
                                          MapSet(@, key, CachedOnMiss(first, second))]
                            /\ heap' = Alloc(h, second, data, FALSE, "", "")
                       ELSE /\ heap' = h
                            /\ UNCHANGED inst
  /\ UNCHANGED <<localStorage, shadow, run>>

NextHeap ==
  \/ Construct(1)
  \/ \E setup \in SetupsOf(Names) : InitSync(1, setup, NoFault)
  \/ \E key \in KeysHeap : GetItemSyncRef(1, key)
  \/ \E key \in KeysHeap, value \in Refs : SetItemSyncRef(1, key, value)
  \/ \E key \in KeysHeap : RemoveItemSync(1, key, NoFault)
  \/ ClearSync(1, NoFault)
  \/ \E data \in ObjData : NewValue(data)
  \/ \E ref \in Refs, data \in ObjData : Mutate(ref, data)
  \/ Collect

SpecHeap == Init /\ [][NextHeap]_vars

----------------------------------------------------------------------------
(* Two objects on the same storage name, their calls interleaved *)

NextSame ==
  \E i \in Inst :
    \/ \E setup \in SetupsOf(Names) : InitSync(i, setup, NoFault)
    \/ \E key \in KeysShared : GetItemSync(i, key)
    \/ \E key \in KeysShared, value \in ValuesShared : SetItemSync(i, key, value, NoFault)
    \/ \E key \in KeysShared : RemoveItemSync(i, key, NoFault)
    \/ ClearSync(i, NoFault)
    \/ SizeSync(i)
    \/ \E index \in 0..MaxIndex : KeySync(i, index)

SpecSame == Init /\ [][NextSame]_vars

----------------------------------------------------------------------------
(* What the claims speak of *)

InSeq(seq, x) == \E n \in 1..Len(seq) : seq[n] = x

NoDuplicates(seq) == \A m, n \in 1..Len(seq) : seq[m] = seq[n] => m = n

\* the value last set under the key and not removed since, else undefined
ShadowValue(name, key) ==
  IF key \in DOMAIN shadow[name].vals THEN shadow[name].vals[key] ELSE Undefined

\* the object the last call was made on
Last == inst[ret.i]

----------------------------------------------------------------------------
\* C1: on one initialized object, with or without cache, getItemSync(k)
\* returns the value of the most recent setItemSync(k, v) not followed by
\* removeItemSync(k) or clearSync() (a stored null as null), and undefined
\* when there is no such set.
C1_GetReturnsLastSet ==
  /\ \A i \in Inst : Ready(i) =>
       \A key \in KeysFor(i) :
         getItemResult(localStorage, inst[i], key)
           = ShadowValue(inst[i].storageName, key)
  /\ ret.op = "get" =>
       ret.err = "" /\ ret.val = ShadowValue(Last.storageName, ret.key)

\* a get has returned a stored null, from localStorage
C1_Witness ==
  /\ ret.op = "get" /\ ret.val = "null" /\ ~Last.useCache
  /\ ret.key \in DOMAIN shadow[Last.storageName].vals
  /\ Len(shadow[Last.storageName].keys) = 2

\* C2: with useCache and a single object on the storage, after every
\* completed call keysArrayCache is the array stored under the index key and
\* every key of keyValueCache has an Entry whose decoded value is the cached
\* value.
C2_CacheEqualsMedium ==
  \A i \in Inst : Ready(i) /\ inst[i].useCache =>
    /\ LSHas(localStorage, inst[i].keysArrayName)
    /\ localStorage[inst[i].keysArrayName].kind = "array"
    /\ localStorage[inst[i].keysArrayName].items = inst[i].keysArrayCache
    /\ \A key \in DOMAIN inst[i].keyValueCache :
         /\ LSHas(localStorage, keyName(inst[i], key))
         /\ JSONparseWrapped(localStorage[keyName(inst[i], key)])
              = inst[i].keyValueCache[key]

\* a remove has completed on a caching object that still caches a key
C2_Witness ==
  /\ ret.op = "remove" /\ ret.err = "" /\ Last.useCache
  /\ Len(ret.before) = 2
  /\ Len(Last.keysArrayCache) = 1
  /\ DOMAIN Last.keyValueCache # {}

\* C3: the persisted index lists no key twice, and lists exactly the keys k
\* whose physical key '<name>-<k>' is in localStorage.
C3_IndexComplete ==
  \A i \in Inst : Ready(i) =>
    /\ LSHas(localStorage, inst[i].keysArrayName)
    /\ LET index == PersistedIndex(localStorage, inst[i])
       IN  /\ NoDuplicates(index)
           /\ \A key \in KeysFor(i) :
                InSeq(index, key) <=> LSHas(localStorage, keyName(inst[i], key))

\* a listed key has been set again: still one index item and one Entry
C3_Witness ==
  /\ ret.op = "set" /\ ret.err = "" /\ InSeq(ret.before, ret.key)
  /\ Len(ret.before) = 1
  /\ Cardinality({pk \in DOMAIN localStorage : pk # Last.keysArrayName}) = 1

----------------------------------------------------------------------------
\* C6: after clearSync() on an initialized object, with or without cache,
\* sizeSync() returns 0, getItemSync(k) returns undefined for every key, no
\* physical key '<name>-<k>' is left in localStorage, and the persisted index
\* is the empty array.
C6_ClearEmpties ==
  ret.op = "clear" /\ ret.err = "" =>
    /\ sizeResult(localStorage, Last) = [err |-> "", num |-> 0]
    /\ LSHas(localStorage, Last.keysArrayName)
    /\ localStorage[Last.keysArrayName].kind = "array"
    /\ localStorage[Last.keysArrayName].items = <<>>
    /\ \A key \in KeysFor(ret.i) :
         /\ getItemResult(localStorage, Last, key) = Undefined
         /\ ~LSHas(localStorage, keyName(Last, key))

\* a clear has completed on a storage that listed two keys
C6_Witness ==
  ret.op = "clear" /\ ret.err = "" /\ Len(ret.before) = 2

\* a step that removes a key the persisted index does not list
C7_RemoveStep ==
  /\ ret'.op = "remove"
  /\ ~InSeq(PersistedIndex(localStorage, inst[ret'.i]), ret'.key)
  => /\ ret'.err = ""
     /\ localStorage' = localStorage
     /\ inst' = inst

\* C7: removeItemSync(k) followed by getItemSync(k) gives undefined; a
\* removeItemSync(k) of a key the index does not list raises no error and
\* leaves localStorage (index content and every Entry) and the cache as
\* they were.
C7_Remove ==
  /\ [](ret.op = "remove" =>
          /\ ret.err = ""
          /\ getItemResult(localStorage, Last, ret.key) = Undefined)
  /\ [][C7_RemoveStep]_vars

\* a key that is not listed has been removed from a caching storage that
\* lists another key
C7_Witness ==
  /\ ret.op = "remove" /\ ret.err = "" /\ Last.useCache
  /\ ~InSeq(ret.before, ret.key)
  /\ Len(ret.before) = 1

C9_ReservedKeyStep ==
  ret'.op = "set" /\ ret'.key = inst[ret'.i].keysArrayName =>
    /\ ret'.err = "cannot be used"
    /\ localStorage' = localStorage
    /\ inst' = inst

\* C9: setItemSync with the storage's own index key '__<name>-keys-array'
\* as key throws 'cannot be used' and leaves localStorage and the cache as
\* they were.
C9_ReservedKey == [][C9_ReservedKeyStep]_vars

\* the index key was refused as a key on a caching storage that lists a key
C9_Witness ==
  /\ ret.op = "set" /\ ret.key = Last.keysArrayName
  /\ ret.err = "cannot be used"
  /\ Last.useCache /\ Len(ret.before) = 1

\* a step that calls initSync
C10_InitStep ==
  ret'.op = "init" =>
    LET o == inst'[ret'.i]
    IN  IF o.keysArrayName \in DOMAIN localStorage
          THEN /\ localStorage' = localStorage
               /\ ret'.touched = {}
               /\ o.useCache => o.keysArrayCache = localStorage[o.keysArrayName].items
          ELSE /\ ret'.touched = {o.keysArrayName}
               /\ DOMAIN localStorage' = DOMAIN localStorage \cup {o.keysArrayName}
               /\ localStorage'[o.keysArrayName].kind = "array"
               /\ localStorage'[o.keysArrayName].items = <<>>
               /\ \A pk \in DOMAIN localStorage : localStorage'[pk] = localStorage[pk]

\* C10: initSync writes an empty index exactly when the index key is not in
\* localStorage; when it is there initSync writes nothing and, with
\* useCache, loads the stored index into keysArrayCache; the new object then
\* reports the size, key order and values that were written.
C10_Init ==
  /\ [](ret.op = "init" =>
          LET live == shadow[Last.storageName].keys
          IN  /\ sizeResult(localStorage, Last) = [err |-> "", num |-> Len(live)]
              /\ \A n \in 0..MaxIndex :
                   keyResult(localStorage, Last, n).val =
                     IF n < Len(live) THEN live[n + 1] ELSE Undefined
              /\ \A key \in KeysFor(ret.i) :
                   getItemResult(localStorage, Last, key)
                     = ShadowValue(Last.storageName, key))
  /\ [][C10_InitStep]_vars

\* a caching object was initialized over a storage that lists two keys
C10_Witness ==
  /\ ret.op = "init" /\ ret.existed /\ Last.useCache
  /\ Len(ret.before) = 2
  /\ Last.keysArrayCache = ret.before

----------------------------------------------------------------------------
(* Two storages *)

\* what object j answers to every read
Observed(j) ==
  [get  |-> [key \in KeysTwo |-> getItemResult(localStorage, inst[j], key)],
   size |-> sizeResult(localStorage, inst[j]),
   key  |-> [n \in 0..MaxIndex |-> keyResult(localStorage, inst[j], n)]]

\* the Entries of object j's storage: the physical keys of its listed keys
EntriesOf(j) ==
  LET index == PersistedIndex(localStorage, inst[j])
  IN  {keyName(inst[j], index[n]) : n \in 1..Len(index)}

\* the logical keys the mapping is probed with
ProbeKeys == KeysTwo \cup {"keys-array"}

\* a step that writes to one storage, seen from every other object
C4_IsolationStep ==
  \A j \in Inst :
    /\ ret'.op \in {"set", "remove", "clear"}
    /\ ret'.i # j
    /\ Ready(j)
    /\ inst[j].storageName # inst[ret'.i].storageName
    => /\ Observed(j)' = Observed(j)
       /\ \A pk \in EntriesOf(j) :
            pk \in DOMAIN localStorage' /\ localStorage'[pk] = localStorage[pk]

\* C4: for two objects whose storage names differ, no set, remove or clear
\* on one changes what get, size or keyAt return on the other, and a clear
\* on one leaves every Entry of the other in localStorage.
C4_Isolation == [][C4_IsolationStep]_vars

\* C5: for storage names A # B and all keys k1, k2: keyName_A(k1) differs
\* from keyName_B(k2), from B's index key and from A's index key, and the
\* two index keys differ.
C5_NoCollision ==
  \A i, j \in Inst :
    Ready(i) /\ Ready(j) /\ inst[i].storageName # inst[j].storageName =>
      /\ inst[i].keysArrayName # inst[j].keysArrayName
      /\ \A k1, k2 \in ProbeKeys :
           /\ keyName(inst[i], k1) # keyName(inst[j], k2)
           /\ keyName(inst[i], k1) # inst[j].keysArrayName
           /\ keyName(inst[i], k1) # inst[i].keysArrayName

----------------------------------------------------------------------------
(* A localStorage that throws, shared with other code *)

\* a step that calls initSync: an exception is raised when the fault is due
\* at getItem or at the setItem that creates the keys array, or when a
\* caching object parses a stored text that is not JSON
C11_InitStep ==
  ret'.op = "init" =>
    LET o == inst'[ret'.i]
        existed == o.keysArrayName \in DOMAIN localStorage
        accesses == IF existed THEN 1 ELSE 2
        raised ==
          \/ ret'.fault.canThrow /\ ret'.fault.left < accesses
          \/ existed /\ o.useCache /\ localStorage[o.keysArrayName].kind = "other"
    IN  /\ ~ret'.thrown
        /\ ret'.err # "" <=> raised
        /\ ret'.err = "" <=> o.phase = "ready"

\* C11: initSync never throws: an exception raised by getItem or setItem, or
\* by parsing the stored keys array, is returned as the Error; initSync
\* returns undefined exactly when no exception was raised.
C11_InitReturnsError == [][C11_InitStep]_vars

\* initSync returned the Error thrown by the setItem that creates the keys
\* array
C11_Witness ==
  /\ ret.op = "init" /\ ret.err = MediumError /\ ~ret.thrown
  /\ ~ret.existed /\ ret.fault = FaultAfter(1)
  /\ Last.phase = "failed"

\* the elements of an array
ItemsOf(seq) == {seq[n] : n \in 1..Len(seq)}

\* a step that is a call on an object of storage N: the physical keys the
\* call may write are N's index key and '<N>-<k>' for k its key argument or
\* a key of N's index (as persisted, or as the object caches it)
C12_FrameStep ==
  ret'.op \in {"init", "get", "set", "remove", "clear", "size", "key"} =>
    LET name == inst'[ret'.i].storageName
        keyArg == IF ret'.op \in {"get", "set", "remove"} THEN {ret'.key} ELSE {}
        listed == ItemsOf(ret'.before) \cup ItemsOf(inst[ret'.i].keysArrayCache)
        allowed == {"__" \o name \o "-keys-array"}
                     \cup {name \o "-" \o k : k \in keyArg \cup listed}
    IN  /\ ret'.touched \subseteq allowed
        /\ \A pk \in (DOMAIN localStorage \cup DOMAIN localStorage') \ allowed :
             /\ pk \in DOMAIN localStorage
             /\ pk \in DOMAIN localStorage'
             /\ localStorage'[pk] = localStorage[pk]

\* C12: a call on an object of storage N writes or removes only N's index
\* key and physical keys '<N>-<k>', k being the call's key argument or a key
\* listed in N's index; every other key of localStorage, such as the keys of
\* other code, keeps its value through any set, remove and clear on N.
C12_Frame == [][C12_FrameStep]_vars

\* a clear of two listed keys has completed next to a key of other code
C12_Witness ==
  /\ ret.op = "clear" /\ ret.err = "" /\ Len(ret.before) = 2
  /\ ret.touched = {Last.keysArrayName, keyName(Last, "value"),
                    keyName(Last, "otherValue")}
  /\ \E pk \in ForeignKeys :
       LSHas(localStorage, pk) /\ localStorage[pk] = OtherText

\* a step in which a set, remove or clear on a caching object, whose cached
\* keys array was the persisted one, ends by a throw of localStorage
C13_FailedWriteStep ==
  /\ ret'.op \in {"set", "remove", "clear"}
  /\ ret'.err = MediumError
  /\ inst[ret'.i].useCache
  /\ inst[ret'.i].keysArrayCache = ret'.before
  => /\ inst'[ret'.i].keysArrayCache = inst[ret'.i].keysArrayCache
     /\ inst'[ret'.i].keyValueCache = inst[ret'.i].keyValueCache
     /\ inst'[ret'.i].keysArrayCache = ret'.before

\* C13: with useCache the cache is modified only after every write of the
\* call to localStorage has succeeded: when a write throws during
\* setItemSync, removeItemSync or clearSync, keysArrayCache and
\* keyValueCache are what they were before the call, and keysArrayCache is
\* still the keys array persisted before the call.
C13_CacheAfterWrites == [][C13_FailedWriteStep]_vars

\* the calls that read and write values
ValueOps == {"get", "set", "remove", "clear", "size", "key"}

\* a step that is a call on an object whose index key is not in localStorage
AbsentIndexCall ==
  /\ ret'.op \in ValueOps
  /\ ~LSHas(localStorage, inst[ret'.i].keysArrayName)

\* as claimed: every such call fails with 'not found' and writes nothing
C14_AbsentIndexStep ==
  AbsentIndexCall =>
    /\ ret'.err = "not found"
    /\ localStorage' = localStorage

C14_AbsentIndexCodeStep ==
  AbsentIndexCall =>
    LET o == inst[ret'.i]
    IN  /\ ~o.useCache /\ ret'.op # "get"
             /\ ~(ret'.op = "set" /\ ret'.key = o.keysArrayName) =>
             /\ ret'.err = IF ret'.fault = FaultAfter(0) THEN MediumError
                                                         ELSE "not found"
             /\ ret'.thrown
             /\ ret'.touched = {}
             /\ localStorage' = localStorage
             /\ inst' = inst
        /\ ret'.op = "get" =>
             /\ ret'.err = ""
             /\ localStorage' = localStorage
        /\ o.useCache => ret'.err # "not found"

----------------------------------------------------------------------------
(* Calls followed one localStorage access at a time *)

\* the keys that have an Entry in localStorage and are not in the persisted
\* keys array of object i's storage
Unlisted(i) ==
  {key \in Keys :
     /\ LSHas(localStorage, keyName(inst[i], key))
     /\ ~InSeq(PersistedIndex(localStorage, inst[i]), key)}

\* the keys the persisted keys array lists that have no Entry
Listed(i) ==
  {key \in Keys :
     /\ InSeq(PersistedIndex(localStorage, inst[i]), key)
     /\ ~LSHas(localStorage, keyName(inst[i], key))}

\* C15: with every getItem, setItem and removeItem one atomic step, between
\* the steps of set, remove and clear a key may be listed without its Entry,
\* but an Entry whose key the persisted index does not list is there for at
\* most one step: it is the Entry an in-progress remove is about to delete,
\* after its index write.
C15_UnlistedEntry ==
  /\ [](\A i \in Inst : Ready(i) /\ Unlisted(i) # {} =>
          /\ run.op = "remove" /\ run.i = i
          /\ Unlisted(i) = {run.key}
          /\ run.done = IF run.o.useCache THEN 1 ELSE 2
          /\ InSeq(PersistedIndex(run.ls, run.o), run.key))
  /\ [][\A i \in Inst : Ready(i) /\ Unlisted(i) # {} => Unlisted(i)' = {}]_vars

\* a remove has written the keys array and not yet removed the Entry, while
\* another key is listed
C15_Witness ==
  /\ run.op = "remove" /\ Unlisted(run.i) = {run.key}
  /\ Len(PersistedIndex(localStorage, inst[run.i])) = 1

----------------------------------------------------------------------------
\* a step that is a completed setItemSync(key, value)
C16_SetStep ==
  ret'.op = "set" /\ ret'.err = "" =>
    LET o == inst[ret'.i]
        entry == o.storageName \o "-" \o ret'.key
        listed == InSeq(PersistedIndex(localStorage, o), ret'.key)
    IN  /\ entry \in ret'.touched
        /\ o.keysArrayName \in ret'.touched <=> ~listed
        /\ ~listed =>
             localStorage'[o.keysArrayName].items
               = PersistedIndex(localStorage, o) \o <<ret'.key>>
        /\ listed =>
             /\ ret'.touched = {entry}
             /\ localStorage'[o.keysArrayName] = localStorage[o.keysArrayName]
             /\ \A pk \in DOMAIN localStorage' \ {entry} :
                  pk \in DOMAIN localStorage /\ localStorage'[pk] = localStorage[pk]

\* C16: setItemSync(k, v) writes the index key if and only if k was not
\* listed in the index before the call; when k is listed, its only write
\* to localStorage is the Entry '<name>-<k>' and the persisted index is as
\* it was.
C16_IndexWrittenIffNew == [][C16_SetStep]_vars

\* a listed key was set again on a storage that lists two keys, and only its
\* Entry was written
C16_Witness ==
  /\ ret.op = "set" /\ ret.err = "" /\ InSeq(ret.before, ret.key)
  /\ Len(ret.before) = 2
  /\ ret.touched = {keyName(Last, ret.key)}
  /\ run = NoRun

----------------------------------------------------------------------------
(* Values that are objects *)

----------------------------------------------------------------------------
(* Two objects on the same storage name *)

\* object i's cache mirror is what localStorage holds
CacheIsMedium(i) ==
  /\ inst[i].keysArrayCache = PersistedIndex(localStorage, inst[i])
  /\ \A key \in DOMAIN inst[i].keyValueCache :
       /\ LSHas(localStorage, keyName(inst[i], key))
       /\ JSONparseWrapped(localStorage[keyName(inst[i], key)])
            = inst[i].keyValueCache[key]

\* key has an Entry that the persisted keys array of object i's storage does
\* not list
UnlistedEntry(i, key) ==
  /\ LSHas(localStorage, keyName(inst[i], key))
  /\ ~InSeq(PersistedIndex(localStorage, inst[i]), key)

\* a step in which caching object j sets a key new to it, while caching
\* object i of the same storage caches another key k with an Entry that j's
\* cached keys array does not have: j writes its own keys array over the
\* persisted one
C18_StaleSetStep ==
  \A i, j \in Inst : \A k \in KeysShared :
    /\ i # j /\ Ready(i) /\ Ready(j)
    /\ inst[i].storageName = inst[j].storageName
    /\ inst[i].useCache /\ inst[j].useCache
    /\ InSeq(inst[i].keysArrayCache, k)
    /\ LSHas(localStorage, keyName(inst[i], k))
    /\ ~InSeq(inst[j].keysArrayCache, k)
    /\ ret'.op = "set" /\ ret'.i = j /\ ret'.err = ""
    /\ ret'.key # k
    /\ ~InSeq(inst[j].keysArrayCache, ret'.key)
    => /\ UnlistedEntry(i, k)'
       /\ ~CacheIsMedium(i)'
       /\ inst'[i].keysArrayCache # PersistedIndex(localStorage', inst'[i])

\* C18: two caching objects on the same storage name are unsafe: there are
\* interleavings of their whole set, remove and clear calls (one object sets
\* a key, then the other, whose cached keys array does not have it, sets a
\* new key) after which the first object's cache mirror differs from
\* localStorage and the persisted index does not list a key whose Entry is
\* in localStorage.
C18_TwoCachesUnsafe == [][C18_StaleSetStep]_vars

\* after whole calls of two caching objects on 'storageOne', object 1's
\* cached keys array is not the persisted one and the Entry of a key it set
\* is not listed
C18_Witness ==
  /\ Ready(1) /\ Ready(2)
  /\ inst[1].useCache /\ inst[2].useCache
  /\ inst[1].storageName = inst[2].storageName
  /\ ret.op = "set" /\ ret.i = 2 /\ ret.err = ""
  /\ ~CacheIsMedium(1)
  /\ \E k \in KeysShared :
       /\ UnlistedEntry(1, k)
       /\ InSeq(inst[1].keysArrayCache, k)
       /\ k \in DOMAIN inst[1].keyValueCache

\* C19: objects on the same storage name that all have useCache false stay
\* consistent under any interleaving of whole calls: every get, size and
\* keyAt of one object gives what the most recent set, remove or clear of
\* any object left, and the persisted index lists, without duplicates,
\* exactly the keys that have an Entry.
C19_NoCacheConsistent ==
  (\A i \in Inst : Ready(i) => ~inst[i].useCache) =>
    /\ \A i \in Inst : Ready(i) =>
         LET live == shadow[inst[i].storageName].keys
             index == PersistedIndex(localStorage, inst[i])
         IN  /\ \A key \in KeysShared :
                  /\ getItemResult(localStorage, inst[i], key)
                       = ShadowValue(inst[i].storageName, key)
                  /\ InSeq(index, key) <=> LSHas(localStorage, keyName(inst[i], key))
             /\ sizeResult(localStorage, inst[i]) = [err |-> "", num |-> Len(live)]
             /\ \A n \in 0..MaxIndex :
                  keyResult(localStorage, inst[i], n) =
                    [err |-> "", val |-> IF n < Len(live) THEN live[n + 1] ELSE Undefined]
             /\ index = live
             /\ NoDuplicates(index)
    /\ ret.op = "get" => ret.val = ShadowValue(Last.storageName, ret.key)
    /\ ret.op = "size" => ret.num = Len(shadow[Last.storageName].keys)
    /\ ret.op = "key" /\ ret.idx < Len(shadow[Last.storageName].keys) =>
         ret.val = shadow[Last.storageName].keys[ret.idx + 1]

\* object 1 read 10 under 'otherValue', the second of two keys that object
\* 2 had set, both objects without cache
C19_Witness ==
  /\ Ready(1) /\ Ready(2)
  /\ ~inst[1].useCache /\ ~inst[2].useCache
  /\ ret.op = "get" /\ ret.i = 1 /\ ret.key = "otherValue" /\ ret.val = "10"
  /\ PersistedIndex(localStorage, inst[1]) = <<"value", "otherValue">>

====
